---------------------------- MODULE Spec2Model ----------------------------
(***************************************************************************)
(* EventX frontend: the authentication shell (App.jsx) and the calendar    *)
(* widget (Calendar.jsx), as state machines over the components' React     *)
(* state, the HTTP requests in flight and the browser console.             *)
(***************************************************************************)
EXTENDS Integers, Sequences, FiniteSets, TLC

VARIABLES
    \* ---- App.jsx ----
    appMounted,        \* the mount effect (App.jsx:67-69) has run
    isAuthenticated,   \* useState(false)
    userEmail,         \* useState('')
    isCheckingAuth,    \* useState(true)
    authError,         \* useState('')
    authReqs,          \* requests awaited by App: endpoint -> number in flight
    logoutClicks,      \* clicks on the Logout button so far
    appConsole,        \* console.log / console.error entries written by App
    unsettledFailure,  \* history: message of the latest auth failure, kept until
                       \* the step that leaves the next settled state
    \* ---- Calendar.jsx ----
    calMounted,        \* "new" (constructed), "mounted" (effect ran), "unmounted"
    listeners,         \* window event types handleEventChange is registered for
    allEvents,         \* useState([])
    loading,           \* useState(false)
    eventReqs,         \* GET /calendar/events requests in flight
    issued,            \* number of fetchEvents calls so far (request ids)
    signals,           \* kanban-* events dispatched on window so far
    calConsole,        \* console.error entries written by Calendar
    today,             \* the value of new Date() at construction
    currentDate,       \* useState(new Date())
    selectedDate,      \* useState(new Date())
    nextCount,         \* history: nextMonth clicks so far
    prevCount,         \* history: prevMonth clicks so far
    tzOffset,          \* minutes the viewer's local time is ahead of UTC
    rendered,          \* the events panel has been rendered
    selectedDateEvents,\* getEventsForDate(selectedDate), Calendar.jsx:135
    cards              \* the event cards rendered, Calendar.jsx:175-196

appVars == <<appMounted, isAuthenticated, userEmail, isCheckingAuth, authError,
             authReqs, logoutClicks, appConsole, unsettledFailure>>
fetchVars == <<calMounted, listeners, allEvents, loading, eventReqs, issued,
               signals, calConsole>>
navVars == <<today, currentDate, selectedDate, nextCount, prevCount>>
renderVars == <<tzOffset, rendered, selectedDateEvents, cards>>
vars == <<appVars, fetchVars, navVars, renderVars>>

\* JavaScript's undefined, as read through optional chaining.
Undefined == "<undefined>"

\* x ?? fallback
Nullish(x, fallback) == IF x = Undefined THEN fallback ELSE x

\* x is truthy (for the strings and undefined this model holds)
Truthy(x) == x # Undefined /\ x # ""

\* obj?.a
Get1(obj, a) == IF a \in DOMAIN obj THEN obj[a] ELSE Undefined

-----------------------------------------------------------------------------
(***************************************************************************)
(* App.jsx                                                                 *)
(***************************************************************************)

MaxLogouts == 2

\* The shapes an axios rejection takes: no response at all (transport
\* failure), a response without a detail field, a response with one.
AuthErrors ==
    { [message |-> "Network Error"],
      [message |-> "Request failed", response |-> [data |-> [error |-> "internal"]]],
      [message |-> "Request failed", response |-> [data |-> [detail |-> "Session expired"]]] }

\* error.response?.data?.detail
Detail(error) ==
    IF "response" \in DOMAIN error /\ "data" \in DOMAIN error.response
    THEN Get1(error.response.data, "detail")
    ELSE Undefined

\* Bodies of GET /auth/status and GET /user/me (data may lack the field).
StatusBodies == { [authenticated |-> TRUE], [authenticated |-> FALSE], [ok |-> TRUE] }
UserBodies == { [email |-> "ana@example.com"], [id |-> "u1"] }

\* statusRes.data?.authenticated
Authenticated(data) == "authenticated" \in DOMAIN data /\ data.authenticated

NoFailure == "<none>"

AuthState == [isAuthenticated |-> isAuthenticated, userEmail |-> userEmail,
              isCheckingAuth |-> isCheckingAuth, authError |-> authError]

\* History bookkeeping: a failure's message is remembered until the step that
\* leaves the next settled (isCheckingAuth = false) state.
Remember(msg) ==
    unsettledFailure' =
        IF msg # NoFailure THEN msg
        ELSE IF ~isCheckingAuth THEN NoFailure ELSE unsettledFailure

SetAuth(s) ==
    /\ isAuthenticated' = s.isAuthenticated
    /\ userEmail' = s.userEmail
    /\ isCheckingAuth' = s.isCheckingAuth
    /\ authError' = s.authError

\* The calendar's state is untouched by App.
AppOnly == UNCHANGED <<fetchVars, navVars, renderVars>>

Sent(kind) == [authReqs EXCEPT ![kind] = @ + 1]
Done(kind) == [authReqs EXCEPT ![kind] = @ - 1]

\* checkAuthStatus up to its first await (App.jsx:19-22), applied to state s.
CheckAuthStatusBegin(s) == [s EXCEPT !.isCheckingAuth = TRUE, !.authError = ""]

\* useEffect(() => { checkAuthStatus(); }, [checkAuthStatus])
AppMountEffect ==
    /\ ~appMounted
    /\ appMounted' = TRUE
    /\ SetAuth(CheckAuthStatusBegin(AuthState))
    /\ authReqs' = Sent("status")
    /\ AppOnly
    /\ Remember(NoFailure)
    /\ UNCHANGED <<logoutClicks, appConsole>>

\* GET /auth/status resolves with body data (App.jsx:22-24, 36-37, 44).
StatusResolves(data) ==
    /\ authReqs["status"] > 0
    /\ appConsole' = Append(appConsole, [level |-> "log", text |-> "Auth status response:"])
    /\ IF Authenticated(data)
       THEN /\ authReqs' = [authReqs EXCEPT !["status"] = @ - 1, !["me"] = @ + 1]
            /\ UNCHANGED <<isAuthenticated, userEmail, isCheckingAuth, authError>>
       ELSE /\ authReqs' = Done("status")
            /\ SetAuth([AuthState EXCEPT !.isAuthenticated = FALSE, !.userEmail = "",
                                         !.isCheckingAuth = FALSE])
    /\ AppOnly
    /\ Remember(NoFailure)
    /\ UNCHANGED <<appMounted, logoutClicks>>

\* GET /auth/status rejects (App.jsx:38-45).
StatusRejects(error) ==
    /\ authReqs["status"] > 0
    /\ authReqs' = Done("status")
    /\ appConsole' = Append(appConsole,
           [level |-> "error", text |-> "Auth status check failed:", error |-> error])
    /\ SetAuth([AuthState EXCEPT !.isAuthenticated = FALSE, !.userEmail = "",
                   !.authError = Nullish(Detail(error), "Authentication check failed"),
                   !.isCheckingAuth = FALSE])
    /\ AppOnly
    /\ Remember(Nullish(Detail(error), "Authentication check failed"))
    /\ UNCHANGED <<appMounted, logoutClicks>>

\* GET /user/me resolves (App.jsx:26-30, 44).
UserResolves(data) ==
    /\ authReqs["me"] > 0
    /\ authReqs' = Done("me")
    /\ SetAuth([AuthState EXCEPT !.userEmail = Nullish(Get1(data, "email"), ""),
                                 !.isAuthenticated = TRUE,
                                 !.isCheckingAuth = FALSE])
    /\ AppOnly
    /\ Remember(NoFailure)
    /\ UNCHANGED <<appMounted, logoutClicks, appConsole>>

\* Variant of UserRejects without the inner try/catch: the rejection is handled
\* by the outer catch of checkAuthStatus.
UserRejectsInOuterCatch(error) ==
    /\ authReqs["me"] > 0
    /\ authReqs' = Done("me")
    /\ appConsole' = Append(appConsole,
           [level |-> "error", text |-> "Fetching user profile failed:", error |-> error])
    /\ SetAuth([AuthState EXCEPT
                   !.authError = Nullish(Detail(error), "Authentication check failed"),
                   !.isAuthenticated = FALSE, !.userEmail = "",
                   !.isCheckingAuth = FALSE])
    /\ AppOnly
    /\ Remember(Nullish(Detail(error), "Authentication check failed"))
    /\ UNCHANGED <<appMounted, logoutClicks>>

\* GET /user/me rejects (App.jsx:31-37, 44).
UserRejects(error) ==
    /\ authReqs["me"] > 0
    /\ authReqs' = Done("me")
    /\ appConsole' = Append(appConsole,
           [level |-> "error", text |-> "Fetching user profile failed:", error |-> error])
    /\ SetAuth([AuthState EXCEPT
                   !.authError = Nullish(Detail(error), "Unable to load user profile"),
                   !.isAuthenticated = FALSE, !.userEmail = "",
                   !.isCheckingAuth = FALSE])
    /\ AppOnly
    /\ Remember(Nullish(Detail(error), "Unable to load user profile"))
    /\ UNCHANGED <<appMounted, logoutClicks>>

\* The Logout button is rendered (App.jsx:88-94) and clicked: handleLogout up
\* to its await (App.jsx:54-56).
ClickLogout ==
    /\ appMounted /\ ~isCheckingAuth /\ isAuthenticated
    /\ logoutClicks < MaxLogouts
    /\ logoutClicks' = logoutClicks + 1
    /\ authReqs' = Sent("logout")
    /\ AppOnly
    /\ Remember(NoFailure)
    /\ UNCHANGED <<appMounted, isAuthenticated, userEmail, isCheckingAuth, authError,
                   appConsole>>

\* handleLogout's finally block (App.jsx:60-64) applied to state s, the
\* synchronous start of checkAuthStatus included.
LogoutFinally(s) ==
    CheckAuthStatusBegin([s EXCEPT !.isAuthenticated = FALSE, !.userEmail = ""])

\* POST /auth/logout resolves.
LogoutResolves ==
    /\ authReqs["logout"] > 0
    /\ authReqs' = [authReqs EXCEPT !["logout"] = @ - 1, !["status"] = @ + 1]
    /\ SetAuth(LogoutFinally(AuthState))
    /\ AppOnly
    /\ Remember(NoFailure)
    /\ UNCHANGED <<appMounted, logoutClicks, appConsole>>

\* Variant of LogoutRejects whose cleanup runs only after a successful logout
\* (no finally block): a failed logout changes nothing but the error.
LogoutRejectsWithoutFinally(error) ==
    /\ authReqs["logout"] > 0
    /\ authReqs' = Done("logout")
    /\ appConsole' = Append(appConsole,
           [level |-> "error", text |-> "Logout failed:", error |-> error])
    /\ SetAuth([AuthState EXCEPT !.authError = Nullish(Detail(error), "Logout failed")])
    /\ AppOnly
    /\ Remember(Nullish(Detail(error), "Logout failed"))
    /\ UNCHANGED <<appMounted, logoutClicks>>

\* POST /auth/logout rejects (App.jsx:57-64).
LogoutRejects(error) ==
    /\ authReqs["logout"] > 0
    /\ authReqs' = [authReqs EXCEPT !["logout"] = @ - 1, !["status"] = @ + 1]
    /\ appConsole' = Append(appConsole,
           [level |-> "error", text |-> "Logout failed:", error |-> error])
    /\ SetAuth(LogoutFinally(
           [AuthState EXCEPT !.authError = Nullish(Detail(error), "Logout failed")]))
    /\ AppOnly
    /\ Remember(Nullish(Detail(error), "Logout failed"))
    /\ UNCHANGED <<appMounted, logoutClicks>>


AppInit ==
    /\ appMounted = FALSE
    /\ isAuthenticated = FALSE
    /\ userEmail = ""
    /\ isCheckingAuth = TRUE
    /\ authError = ""
    /\ authReqs = [k \in {"status", "me", "logout"} |-> 0]
    /\ logoutClicks = 0
    /\ appConsole = <<>>
    /\ unsettledFailure = NoFailure

AppNext ==
    \/ AppMountEffect
    \/ \E data \in StatusBodies : StatusResolves(data)
    \/ \E error \in AuthErrors : StatusRejects(error)
    \/ \E data \in UserBodies : UserResolves(data)
    \/ \E error \in AuthErrors : UserRejects(error)
    \/ ClickLogout
    \/ LogoutResolves
    \/ \E error \in AuthErrors : LogoutRejects(error)

-----------------------------------------------------------------------------
(***************************************************************************)
(* Calendar.jsx: dates                                                     *)
(***************************************************************************)

\* Variant of NewDate that wraps the month without carrying into the year.
NewDateWithoutCarry(year, month, day) ==
    [year |-> year, month |-> month % 12, date |-> day]

\* A local Date, by its getFullYear(), getMonth() (0-based) and getDate().
\* new Date(year, month, day): a month outside 0..11 carries into the year.
NewDate(year, month, day) ==
    [year |-> year + (month \div 12), month |-> month % 12, date |-> day]

IsLeap(year) == (year % 4 = 0 /\ year % 100 # 0) \/ year % 400 = 0

\* new Date(year, month + 1, 0).getDate()
getDaysInMonth(d) ==
    IF d.month = 1 THEN (IF IsLeap(d.year) THEN 29 ELSE 28)
    ELSE IF d.month \in {3, 5, 8, 10} THEN 30 ELSE 31

\* String(n).padStart(2, '0')
PadStart2(str) == IF Len(str) < 2 THEN "0" \o str ELSE str

\* The dateYMD key of getEventsForDate.
DateYMD(d) ==
    ToString(d.year) \o "-" \o PadStart2(ToString(d.month + 1)) \o "-"
        \o PadStart2(ToString(d.date))

\* Date.prototype.toDateString without the weekday, which the date determines.
toDateString(d) ==
    IF d.valid
    THEN ToString(d.month) \o " " \o PadStart2(ToString(d.date)) \o " " \o ToString(d.year)
    ELSE "Invalid Date"

\* new Date(isoString): the instant's UTC fields, or an invalid Date.
ParseDateTime(str) ==
    CASE str = "2024-03-01T02:30:00Z" ->
            [valid |-> TRUE, year |-> 2024, month |-> 2, date |-> 1, minutes |-> 150]
      [] str = "2024-02-29T20:00:00Z" ->
            [valid |-> TRUE, year |-> 2024, month |-> 1, date |-> 29, minutes |-> 1200]
      [] OTHER -> [valid |-> FALSE]

PrevDay(d) ==
    IF d.date > 1 THEN [d EXCEPT !.date = @ - 1]
    ELSE LET m == NewDate(d.year, d.month - 1, 1)
         IN  [m EXCEPT !.date = getDaysInMonth(m)]

NextDay(d) ==
    IF d.date < getDaysInMonth(d) THEN [d EXCEPT !.date = @ + 1]
    ELSE NewDate(d.year, d.month + 1, 1)

\* The local calendar date and minute of day of a parsed instant, for a viewer
\* whose clock is offset minutes ahead of UTC.
ToLocal(instant, offset) ==
    IF ~instant.valid THEN instant
    ELSE LET day == [year |-> instant.year, month |-> instant.month, date |-> instant.date]
             total == instant.minutes + offset
             local == IF total < 0 THEN PrevDay(day)
                      ELSE IF total >= 1440 THEN NextDay(day) ELSE day
         IN  [valid |-> TRUE, year |-> local.year, month |-> local.month,
              date |-> local.date, minutes |-> total % 1440]

AsValid(d) == [valid |-> TRUE, year |-> d.year, month |-> d.month, date |-> d.date]

-----------------------------------------------------------------------------
(***************************************************************************)
(* Calendar.jsx: filtering and rendering the selected day's events         *)
(***************************************************************************)

MaxEvents == 3

\* CalendarEvent values a backend can return; every field is optional.
EventPool ==
    { [id |-> "a", summary |-> "Standup", start |-> [date |-> "2024-02-29"]],
      [id |-> "b", summary |-> "Offsite", start |-> [date |-> "2024-03-01"]],
      [id |-> "c", start |-> [date |-> "2024-3-1"]],
      [id |-> "d", summary |-> "", start |-> [dateTime |-> "2024-03-01T02:30:00Z"]],
      [id |-> "e", summary |-> "Review", start |-> [dateTime |-> "2024-02-29T20:00:00Z"]],
      [id |-> "f", summary |-> "Both",
       start |-> [date |-> "2024-03-01", dateTime |-> "2024-03-01T02:30:00Z"]],
      [id |-> "g", summary |-> "Blank date",
       start |-> [date |-> "", dateTime |-> "2024-02-29T20:00:00Z"]],
      [id |-> "h", summary |-> "Bad time", start |-> [dateTime |-> "soon"]],
      [id |-> "i", summary |-> "No start"],
      [id |-> "j", summary |-> "No time", start |-> [timeZone |-> "UTC"]] }

SelectedDates == { NewDate(2024, 1, 29), NewDate(2024, 2, 1) }
TzOffsets == { -300, 0, 330 }

\* event.start?.date and event.start?.dateTime
StartDate(event) == IF "start" \in DOMAIN event THEN Get1(event.start, "date") ELSE Undefined
StartDateTime(event) ==
    IF "start" \in DOMAIN event THEN Get1(event.start, "dateTime") ELSE Undefined

\* Variant of EventMatches that tests the two fields independently (|| in
\* place of if / else if).
EventMatchesEitherField(event, date) ==
    \/ Truthy(StartDate(event)) /\ StartDate(event) = DateYMD(date)
    \/ Truthy(StartDateTime(event))
         /\ toDateString(ToLocal(ParseDateTime(StartDateTime(event)), tzOffset))
               = toDateString(AsValid(date))

\* The callback of allEvents.filter (Calendar.jsx:123-132).
EventMatches(event, date) ==
    IF Truthy(StartDate(event))
    THEN StartDate(event) = DateYMD(date)
    ELSE IF Truthy(StartDateTime(event))
    THEN toDateString(ToLocal(ParseDateTime(StartDateTime(event)), tzOffset))
             = toDateString(AsValid(date))
    ELSE FALSE

getEventsForDate(date) ==
    LET keep(event) == EventMatches(event, date)
    IN  SelectSeq(allEvents, keep)

\* toLocaleTimeString([], { hour: '2-digit', minute: '2-digit' })
toLocaleTimeString(d) ==
    IF d.valid
    THEN PadStart2(ToString(d.minutes \div 60)) \o ":" \o PadStart2(ToString(d.minutes % 60))
    ELSE "Invalid Date"

\* One event card (Calendar.jsx:176-195): the title, and the lines shown
\* under it.
EventCard(event) ==
    [ title |-> IF Truthy(Get1(event, "summary")) THEN event.summary ELSE "(No title)",
      lines |->
          (IF Truthy(StartDateTime(event))
           THEN <<toLocaleTimeString(ToLocal(ParseDateTime(StartDateTime(event)), tzOffset))>>
           ELSE <<>>)
          \o (IF Truthy(StartDate(event)) THEN <<"All day">> ELSE <<>>) ]

RenderInit ==
    /\ tzOffset \in TzOffsets
    /\ rendered = FALSE
    /\ selectedDateEvents = <<>>
    /\ cards = <<>>

\* The events panel is rendered for the current state (Calendar.jsx:135,
\* 172-199); the cards are shown when no fetch is loading.
RenderEvents ==
    /\ ~rendered
    /\ ~loading
    /\ rendered' = TRUE
    /\ selectedDateEvents' = getEventsForDate(selectedDate)
    /\ cards' = [i \in 1..Len(getEventsForDate(selectedDate)) |->
                    EventCard(getEventsForDate(selectedDate)[i])]
    /\ UNCHANGED <<tzOffset, appVars, fetchVars, navVars>>

-----------------------------------------------------------------------------
(***************************************************************************)
(* Calendar.jsx: fetching the events                                       *)
(***************************************************************************)

MaxSignals == 2

SignalTypes == { "kanban-event-added", "kanban-event-deleted" }

Pending == [kind |-> "pending"]

\* What GET /calendar/events can settle with: a body, no body, a rejection.
Outcomes ==
    { [kind |-> "resolved", response |-> [data |-> <<>>]],
      [kind |-> "resolved", response |-> [status |-> 204]],
      [kind |-> "resolved", response |->
          [data |-> << [id |-> "a", summary |-> "Standup", start |-> [date |-> "2024-02-29"]] >>]],
      [kind |-> "resolved", response |->
          [data |-> << [id |-> "e", summary |-> "Review",
                        start |-> [dateTime |-> "2024-02-29T20:00:00Z"]],
                       [id |-> "i", summary |-> "No start"] >>]],
      [kind |-> "rejected", error |-> [message |-> "Network Error"]] }

FetchOnly == UNCHANGED <<appVars, navVars, renderVars>>

\* Variant of FetchBegin that aborts the requests already in flight.
FetchBeginCancelling == { [id |-> issued + 1, outcome |-> Pending] }

\* fetchEvents up to its await (Calendar.jsx:84-86): the requests in flight
\* after the call.
FetchBegin == eventReqs \cup { [id |-> issued + 1, outcome |-> Pending] }

\* Variant of FetchedEvents whose catch block leaves the list as it was.
FetchedEventsKeepingStale(outcome) ==
    IF outcome.kind = "resolved"
    THEN (IF "data" \in DOMAIN outcome.response THEN outcome.response.data ELSE <<>>)
    ELSE allEvents

\* The value fetchEvents stores in allEvents when its request settles
\* (Calendar.jsx:87-91).
FetchedEvents(outcome) ==
    IF outcome.kind = "resolved"
    THEN (IF "data" \in DOMAIN outcome.response THEN outcome.response.data ELSE <<>>)
    ELSE <<>>

\* The mount effect (Calendar.jsx:98-108).
CalMountEffect ==
    /\ calMounted = "new"
    /\ calMounted' = "mounted"
    /\ loading' = TRUE
    /\ eventReqs' = FetchBegin
    /\ issued' = issued + 1
    /\ listeners' = listeners \cup SignalTypes
    /\ UNCHANGED <<allEvents, signals, calConsole>>
    /\ FetchOnly

\* window.dispatchEvent(new Event(type)) by another component.
Dispatch(type) ==
    /\ signals < MaxSignals
    /\ signals' = signals + 1
    /\ IF type \in listeners
       THEN /\ loading' = TRUE
            /\ eventReqs' = FetchBegin
            /\ issued' = issued + 1
       ELSE UNCHANGED <<loading, eventReqs, issued>>
    /\ UNCHANGED <<calMounted, listeners, allEvents, calConsole>>
    /\ FetchOnly

\* The backend (or the transport) answers a request in flight.
BackendAnswers(req, outcome) ==
    /\ req \in eventReqs
    /\ req.outcome = Pending
    /\ eventReqs' = (eventReqs \ {req}) \cup { [req EXCEPT !.outcome = outcome] }
    /\ UNCHANGED <<calMounted, listeners, allEvents, loading, issued, signals, calConsole>>
    /\ FetchOnly

\* fetchEvents resumes after its await (Calendar.jsx:87-94).  React drops
\* the state updates of a component that has unmounted.
FetchSettles(req) ==
    /\ req \in eventReqs
    /\ req.outcome # Pending
    /\ eventReqs' = eventReqs \ {req}
    /\ calConsole' = IF req.outcome.kind = "rejected"
                     THEN Append(calConsole, "Failed to fetch calendar events:")
                     ELSE calConsole
    /\ IF calMounted = "mounted"
       THEN /\ allEvents' = FetchedEvents(req.outcome)
            /\ loading' = FALSE
       ELSE UNCHANGED <<allEvents, loading>>
    /\ UNCHANGED <<calMounted, listeners, issued, signals>>
    /\ FetchOnly

\* Variant of Unmount whose cleanup removes only the first listener.
UnmountLeavingListener ==
    /\ calMounted = "mounted"
    /\ calMounted' = "unmounted"
    /\ listeners' = listeners \ {"kanban-event-added"}
    /\ UNCHANGED <<allEvents, loading, eventReqs, issued, signals, calConsole>>
    /\ FetchOnly

\* The effect's cleanup (Calendar.jsx:109-112).
Unmount ==
    /\ calMounted = "mounted"
    /\ calMounted' = "unmounted"
    /\ listeners' = listeners \ SignalTypes
    /\ UNCHANGED <<allEvents, loading, eventReqs, issued, signals, calConsole>>
    /\ FetchOnly

FetchInit ==
    /\ calMounted = "new"
    /\ listeners = {}
    /\ allEvents = <<>>
    /\ loading = FALSE
    /\ eventReqs = {}
    /\ issued = 0
    /\ signals = 0
    /\ calConsole = <<>>

FetchNext ==
    \/ CalMountEffect
    \/ \E type \in SignalTypes : Dispatch(type)
    \/ \E req \in eventReqs, outcome \in Outcomes : BackendAnswers(req, outcome)
    \/ \E req \in eventReqs : FetchSettles(req)
    \/ Unmount

-----------------------------------------------------------------------------
(***************************************************************************)
(* Calendar.jsx: month navigation and day selection                        *)
(***************************************************************************)

MaxNav == 12

\* Values of new Date() when the component is constructed.
Todays == { NewDate(2024, 0, 31), NewDate(2023, 11, 15), NewDate(2024, 1, 29) }

NavOnly == UNCHANGED <<appVars, fetchVars, renderVars>>

NavInitAt(now) ==
    /\ today = now
    /\ currentDate = now
    /\ selectedDate = now
    /\ nextCount = 0
    /\ prevCount = 0

prevMonth ==
    /\ prevCount < MaxNav
    /\ prevCount' = prevCount + 1
    /\ currentDate' = NewDate(currentDate.year, currentDate.month - 1, 1)
    /\ UNCHANGED <<today, selectedDate, nextCount>>
    /\ NavOnly

nextMonth ==
    /\ nextCount < MaxNav
    /\ nextCount' = nextCount + 1
    /\ currentDate' = NewDate(currentDate.year, currentDate.month + 1, 1)
    /\ UNCHANGED <<today, selectedDate, prevCount>>
    /\ NavOnly

\* A day cell of the displayed month is clicked (Calendar.jsx:54-56, 67-72).
handleDateClick(day) ==
    /\ day \in 1..getDaysInMonth(currentDate)
    /\ selectedDate' = NewDate(currentDate.year, currentDate.month, day)
    /\ UNCHANGED <<today, currentDate, nextCount, prevCount>>
    /\ NavOnly

NavNext ==
    \/ prevMonth
    \/ nextMonth
    \/ \E day \in {1, getDaysInMonth(currentDate)} : handleDateClick(day)

-----------------------------------------------------------------------------
(***************************************************************************)
(* Specifications                                                          *)
(***************************************************************************)

\* The authentication shell, beside a freshly constructed calendar.
Init ==
    /\ AppInit
    /\ FetchInit
    /\ NavInitAt(NewDate(2024, 1, 29))
    /\ RenderInit /\ tzOffset = 0

Next == AppNext

Spec == Init /\ [][Next]_vars

\* The calendar's event fetching.
SpecFetch == Init /\ [][FetchNext]_vars

\* Month navigation and day selection, from several construction dates.
InitNav ==
    /\ AppInit /\ FetchInit
    /\ RenderInit /\ tzOffset = 0
    /\ \E now \in Todays : NavInitAt(now)

SpecNav == InitNav /\ [][NavNext]_vars

\* Filtering and rendering, for every fetched list, selected date and time
\* zone of the bounded sets.
EventLists == UNION { [1..n -> EventPool] : n \in 0..MaxEvents }

InitRender ==
    /\ AppInit
    /\ RenderInit
    /\ calMounted = "mounted"
    /\ listeners = SignalTypes
    /\ allEvents \in EventLists
    /\ loading = FALSE
    /\ eventReqs = {}
    /\ issued = 1
    /\ signals = 0
    /\ calConsole = <<>>
    /\ today = NewDate(2024, 1, 29)
    /\ currentDate = today
    /\ selectedDate \in SelectedDates
    /\ nextCount = 0
    /\ prevCount = 0

SpecRender == InitRender /\ [][RenderEvents]_vars

-----------------------------------------------------------------------------
(***************************************************************************)
(* Properties                                                              *)
(***************************************************************************)

LastLog(console) == console[Len(console)]

\* The message a failure is expected to surface: the response's detail when
\* there is one, else the call's fixed fallback.
ExpectedMessage(error, fallback) ==
    IF error = [message |-> "Request failed",
                response |-> [data |-> [detail |-> "Session expired"]]]
    THEN "Session expired"
    ELSE fallback

\* C1: whenever a POST /auth/logout settles, resolved or rejected, the step
\* leaves isAuthenticated = false and userEmail = '' and has started exactly
\* one new checkAuthStatus run (isCheckingAuth = true, one more GET
\* /auth/status in flight).
LogoutClearsAndRechecks ==
    [][ authReqs'["logout"] < authReqs["logout"] =>
          /\ isAuthenticated' = FALSE
          /\ userEmail' = ""
          /\ isCheckingAuth' = TRUE
          /\ authReqs'["status"] = authReqs["status"] + 1
          /\ authReqs'["me"] = authReqs["me"] ]_vars

\* A failed logout has just been handled: the user is anonymous and the
\* re-check is in flight.
LogoutFailedAndRechecking ==
    /\ appConsole # <<>>
    /\ LastLog(appConsole).text = "Logout failed:"
    /\ ~isAuthenticated /\ userEmail = "" /\ isCheckingAuth
    /\ authReqs["status"] = 1 /\ authReqs["logout"] = 0

\* C2: the step in which GET /user/me fails (after a positive /auth/status)
\* ends the run with isAuthenticated = false, userEmail = '', isCheckingAuth =
\* false and authError equal to the profile failure's message, which is never
\* the auth-status fallback.
ProfileFailureSurfacesOwnMessage ==
    [][ \A error \in AuthErrors :
          appConsole' = Append(appConsole, [level |-> "error",
                                            text |-> "Fetching user profile failed:",
                                            error |-> error]) =>
            /\ isAuthenticated' = FALSE
            /\ userEmail' = ""
            /\ isCheckingAuth' = FALSE
            /\ authError' = ExpectedMessage(error, "Unable to load user profile")
            /\ authError' # "Authentication check failed" ]_vars

\* A profile fetch without a detail has just failed.
ProfileFailedState ==
    /\ appConsole # <<>>
    /\ LastLog(appConsole).text = "Fetching user profile failed:"
    /\ authError = "Unable to load user profile"
    /\ ~isAuthenticated /\ userEmail = "" /\ ~isCheckingAuth

\* C6: in every settled state (isCheckingAuth = false) that follows an auth
\* failure (of /auth/status, /user/me or /auth/logout), authError holds that
\* failure's message.
EveryAuthFailureSurfaced ==
    (~isCheckingAuth /\ unsettledFailure # NoFailure) => authError = unsettledFailure

\* C5: while the Calendar is mounted, loading is true exactly when at least
\* one GET /calendar/events request is in flight.
LoadingIffFetchInFlight ==
    calMounted = "mounted" => (loading <=> eventReqs # {})

\* The events an outcome is expected to leave in allEvents: the payload, or
\* the empty sequence after a failure or a response without data.
ExpectedEvents(outcome) ==
    CASE outcome.kind = "rejected" -> <<>>
      [] outcome.kind = "resolved" /\ "data" \notin DOMAIN outcome.response -> <<>>
      [] OTHER -> outcome.response.data

\* Request req leaves the requests in flight in this step, having settled.
Settling(req) == req \in eventReqs /\ req.outcome # Pending /\ req \notin eventReqs'

\* C3: the step in which a mounted Calendar handles a failed GET
\* /calendar/events sets allEvents to the empty sequence and loading to
\* false, and issues no new request (no retry).
FailedFetchEndsEmpty ==
    [][ \A req \in eventReqs :
          (Settling(req) /\ req.outcome.kind = "rejected" /\ calMounted = "mounted") =>
            /\ allEvents' = <<>>
            /\ loading' = FALSE
            /\ issued' = issued
            /\ eventReqs' = eventReqs \ {req} ]_vars

\* The second fetch failed after the first had delivered events: the list is
\* empty again, nothing is loading and nothing is in flight.
FailedFetchState ==
    /\ calMounted = "mounted"
    /\ issued = 2 /\ eventReqs = {}
    /\ calConsole = <<"Failed to fetch calendar events:">>
    /\ allEvents = <<>> /\ ~loading

\* C9: fetches started while others are in flight are neither cancelled nor
\* merged (a start keeps every request in flight, and a request leaves only by
\* settling), every settling response replaces allEvents by its own outcome
\* whatever its issue order, and nothing else writes allEvents: so after all
\* have settled allEvents is the outcome of the response that arrived last.
LastResponseWins ==
    [][ (calMounted = "mounted" /\ calMounted' = "mounted") =>
          /\ \A req \in eventReqs :
                Settling(req) => allEvents' = ExpectedEvents(req.outcome)
          /\ (\A req \in eventReqs : ~Settling(req)) => allEvents' = allEvents
          /\ issued' > issued =>
                /\ eventReqs \subseteq eventReqs'
                /\ Cardinality(eventReqs') = Cardinality(eventReqs) + 1
          /\ \A req \in eventReqs :
                req.outcome = Pending => \E r2 \in eventReqs' : r2.id = req.id ]_vars

\* Two fetches overlapped and the later one settled first: its events are
\* shown while the earlier request, already failed, has yet to be handled.
LaterResponseArrivedFirst ==
    /\ calMounted = "mounted"
    /\ issued = 2
    /\ eventReqs = { [id |-> 1, outcome |-> [kind |-> "rejected",
                                             error |-> [message |-> "Network Error"]]] }
    /\ allEvents # <<>>

\* C10: while the Calendar is mounted every kanban-event-added or
\* kanban-event-deleted signal starts exactly one new fetchEvents request;
\* once it is unmounted no listener is left and a signal starts none.
SignalsRefetchOnlyWhileMounted ==
    /\ [](calMounted = "unmounted" => listeners = {})
    /\ [][ signals' = signals + 1 =>
             /\ calMounted = "mounted" =>
                   /\ eventReqs' = eventReqs \cup { [id |-> issued + 1, outcome |-> Pending] }
                   /\ Cardinality(eventReqs') = Cardinality(eventReqs) + 1
                   /\ issued' = issued + 1
                   /\ loading' = TRUE
             /\ calMounted = "unmounted" =>
                   /\ eventReqs' = eventReqs
                   /\ issued' = issued ]_vars

\* Signals were dispatched around an unmounted Calendar and at least one of
\* them started no fetch.
SignalIgnoredAfterUnmount ==
    /\ calMounted = "unmounted"
    /\ listeners = {}
    /\ signals = 2
    /\ issued = 2

\* C8: equally many nextMonth and prevMonth clicks, in any interleaving (12
\* of each included), leave the displayed month and year where they started;
\* nextMonth in December shows January of the next year and prevMonth in
\* January shows December of the prior year, any other month moving by one
\* within its year; and neither changes selectedDate.
NavigationRoundTrips ==
    /\ [](nextCount = prevCount =>
            currentDate.year = today.year /\ currentDate.month = today.month)
    /\ [][ /\ nextCount' = nextCount + 1 =>
                /\ selectedDate' = selectedDate
                /\ IF currentDate.month = 11
                   THEN currentDate'.month = 0 /\ currentDate'.year = currentDate.year + 1
                   ELSE currentDate'.month = currentDate.month + 1
                          /\ currentDate'.year = currentDate.year
           /\ prevCount' = prevCount + 1 =>
                /\ selectedDate' = selectedDate
                /\ IF currentDate.month = 0
                   THEN currentDate'.month = 11 /\ currentDate'.year = currentDate.year - 1
                   ELSE currentDate'.month = currentDate.month - 1
                          /\ currentDate'.year = currentDate.year ]_vars

\* Twelve clicks of each button later the original month is displayed again,
\* and the day selected on the way (in another month) is still selected.
TwelveEachWayState ==
    /\ nextCount = 12 /\ prevCount = 12
    /\ currentDate.year = today.year /\ currentDate.month = today.month
    /\ currentDate # today
    /\ selectedDate.month # today.month

\* The events of allEvents, in order, that belong to the set matching.
RECURSIVE KeepIn(_, _)
KeepIn(events, matching) ==
    IF events = <<>> THEN <<>>
    ELSE (IF Head(events) \in matching THEN <<Head(events)>> ELSE <<>>)
            \o KeepIn(Tail(events), matching)

\* (a) start.date equals the selected date's YYYY-MM-DD key.
OnSelectedDateByDate(event) ==
    /\ "start" \in DOMAIN event /\ "date" \in DOMAIN event.start
    /\ event.start.date = DateYMD(selectedDate)

\* (b) start.dateTime falls on the selected date's local calendar date.
OnSelectedDateByTime(event) ==
    /\ "start" \in DOMAIN event /\ "dateTime" \in DOMAIN event.start
    /\ LET local == ToLocal(ParseDateTime(event.start.dateTime), tzOffset)
       IN  /\ local.valid
           /\ local.year = selectedDate.year
           /\ local.month = selectedDate.month
           /\ local.date = selectedDate.date

\* start.date is present and not empty.
HasStartDate(event) ==
    "start" \in DOMAIN event /\ "date" \in DOMAIN event.start /\ event.start.date # ""

\* C4 (as claimed): getEventsForDate returns, in fetch order, exactly the
\* events that satisfy (a) or (b), so an event satisfying (b) is returned
\* even when it carries a start.date that differs from the key.
FilterKeepsDateOrTimeMatches ==
    rendered =>
        selectedDateEvents =
            KeepIn(allEvents, { e \in EventPool :
                                  OnSelectedDateByDate(e) \/ OnSelectedDateByTime(e) })

\* C4 (amended): getEventsForDate returns, in fetch order, exactly the events
\* that satisfy (a), or that carry no (non-empty) start.date and satisfy (b);
\* an event with neither field is never returned.
FilterKeepsDateElseTimeMatches ==
    rendered =>
        /\ selectedDateEvents =
              KeepIn(allEvents, { e \in EventPool :
                                    \/ OnSelectedDateByDate(e)
                                    \/ ~HasStartDate(e) /\ OnSelectedDateByTime(e) })
        /\ \A i \in 1..Len(selectedDateEvents) :
              Truthy(StartDate(selectedDateEvents[i]))
                \/ Truthy(StartDateTime(selectedDateEvents[i]))

\* Three events were fetched and two of them are listed for 29 February, in
\* fetch order; the one left out starts at a time on that local date but
\* carries a start.date of another day.
TwoOfThreeListed ==
    /\ rendered
    /\ tzOffset = -300
    /\ selectedDate = [year |-> 2024, month |-> 1, date |-> 29]
    /\ Len(allEvents) = 3
    /\ OnSelectedDateByDate(allEvents[1])
    /\ OnSelectedDateByTime(allEvents[2]) /\ HasStartDate(allEvents[2])
    /\ ~OnSelectedDateByDate(allEvents[2])
    /\ OnSelectedDateByTime(allEvents[3]) /\ ~HasStartDate(allEvents[3])
    /\ selectedDateEvents = <<allEvents[1], allEvents[3]>>

\* C7: every card of the selected day's list shows the event's summary, or
\* '(No title)' when it has none, and exactly one line under it: the local
\* start time or 'All day', never both.
CardShowsTimeOrAllDay ==
    rendered =>
        \A i \in 1..Len(cards) :
            /\ cards[i].title =
                  (IF "summary" \in DOMAIN selectedDateEvents[i]
                        /\ selectedDateEvents[i].summary # ""
                   THEN selectedDateEvents[i].summary
                   ELSE "(No title)")
            /\ Len(cards[i].lines) = 1

=============================================================================
